---------------------------- MODULE Spec2Model ----------------------------
(***************************************************************************)
(* A model of the PlantDoc data preparation pipeline: the class balancer   *)
(* (src/processing/balancer.py), the YOLO exporter                         *)
(* (src/processing/yolo_converter.py) and the three pipelines built on     *)
(* BasePipeline (src/pipelines/*.py).                                      *)
(*                                                                         *)
(* A table (pandas DataFrame) is a sequence of records.  A filename is a   *)
(* sequence of tokens: letters, decimal digits, the marker "_dup" and a    *)
(* final extension token, so that the string operations of the code        *)
(* (Path.stem, Path.suffix, str.split('_dup'), f"{stem}_dup{k}{suffix}")   *)
(* are computed on the text and not assumed.  Label values are naturals    *)
(* whose numeric order is the lexicographic order of the labels.           *)
(***************************************************************************)
EXTENDS Integers, Sequences, FiniteSets, TLC

VARIABLES
    pc,                  \* position of the running call / pipeline stage
    pipeline_type,       \* 'binary' | 'species' | 'disease' ("none": a bare call)
    df_train,            \* BasePipeline.df_train
    df_test,             \* BasePipeline.df_test
    df_train_processed,  \* BasePipeline.df_train_processed
    df_test_processed,   \* BasePipeline.df_test_processed
    target_samples,      \* target_samples_per_class
    apply_balancing,     \* balance_data's apply_balancing
    keep_above_target,   \* balance_by_column's keep_above_target
    class_mapping,       \* the dict built by create_class_mapping
    source_images,       \* split -> filenames present in the source image dir
    output_images,       \* split -> filenames present in the output image dir
    output_labels,       \* split -> (label path -> lines written)
    split,               \* the split export_to_yolo is working on
    todo,                \* the groups of df.groupby("filename") not yet visited
    exported,            \* export_to_yolo's local counter
    skipped,             \* export_to_yolo's local counter
    status,              \* history: <<split, filename>> -> how the group ended
    returned,            \* split -> the (exported, skipped) tuple returned
    mapping_used,        \* history: split/manifest -> mapping passed to the call
    dataset_yaml,        \* the output base dir: 'dataset.yaml' -> its content
    csv,                 \* the two csv sources on disk: readable, columns, rows
    image_size,          \* image file -> its (width, height), or Unreadable
    stages               \* history: the stages of run() entered so far

vars == <<pc, pipeline_type, df_train, df_test, df_train_processed,
          df_test_processed, target_samples, apply_balancing, keep_above_target, class_mapping,
          source_images, output_images, output_labels, split, todo, exported,
          skipped, status, returned, mapping_used, dataset_yaml, csv, image_size, stages>>

-----------------------------------------------------------------------------
(* Bounds of the model *)

MaxRows == 3          \* rows of a table handed to balance_by_column
MaxTarget == 4        \* largest target_samples_per_class tried
MaxExportRows == 3    \* rows of a table handed to a bare export_to_yolo call
MaxTrainRows == 2     \* rows of the training csv of a pipeline run
MaxTestRows == 1      \* rows of the evaluation csv of a pipeline run
MaxSeparators == 2    \* characters of a separator in a raw class text
MaxValRows == 2       \* rows of the training csv of a run that looks at validation
MaxMinorRows == 2     \* rows after the bulk of a large training table
MaxBoxRows == 2       \* boxes of the image handed to a bare export_to_yolo call

None == "None"        \* Python's None / a value not set yet

-----------------------------------------------------------------------------
(* Small helpers *)

Min(a, b) == IF a < b THEN a ELSE b
Max(a, b) == IF a > b THEN a ELSE b

Range(s) == {s[i] : i \in DOMAIN s}

\* All tables of at most n rows over the record set R.
TablesOver(R, n) == UNION {[1..k -> R] : k \in 0..n}

-----------------------------------------------------------------------------
(* Filenames as text *)

Digits == <<"0", "1", "2", "3", "4", "5", "6", "7", "8", "9">>
Extensions == {".jpg", ".png"}
DupMarker == "_dup"

\* str(k) for k >= 0, as the f-string of balancer.py:64 formats it.
RECURSIVE Dec(_)
Dec(k) == IF k < 10 THEN <<Digits[k + 1]>>
          ELSE Dec(k \div 10) \o <<Digits[(k % 10) + 1]>>

\* pathlib: Path(name).suffix, the final extension ('' when there is none).
PathSuffix(f) == IF Len(f) > 1 /\ f[Len(f)] \in Extensions
                 THEN <<f[Len(f)]>> ELSE <<>>

\* pathlib: Path(name).stem, the name without its final extension.
PathStem(f) == IF Len(f) > 1 /\ f[Len(f)] \in Extensions
               THEN SubSeq(f, 1, Len(f) - 1) ELSE f

\* '_dup' in filename
HasDup(f) == \E i \in DOMAIN f : f[i] = DupMarker

\* filename.split('_dup')[0]: the text before the first marker.
SplitDupHead(f) ==
    IF HasDup(f)
    THEN LET i == CHOOSE j \in DOMAIN f :
                     f[j] = DupMarker /\ \A h \in 1..(j - 1) : f[h] # DupMarker
         IN SubSeq(f, 1, i - 1)
    ELSE f

\* Rank of a token in ASCII order of its text ('.' < digits < '_' < letters).
TokenRank(t) ==
    CASE t = ".jpg" -> 0
      [] t = ".png" -> 1
      [] t = ".txt" -> 2
      [] t \in Range(Digits) -> 3 + (CHOOSE d \in 0..9 : Digits[d + 1] = t)
      [] t = DupMarker -> 13
      [] t = "a" -> 14
      [] t = "b" -> 15
      [] t = "c" -> 16

\* f < g as Python compares str: lexicographic, a proper prefix first.
RECURSIVE StrLess(_, _)
StrLess(f, g) ==
    IF g = <<>> THEN FALSE
    ELSE IF f = <<>> THEN TRUE
    ELSE IF f[1] # g[1] THEN TokenRank(f[1]) < TokenRank(g[1])
    ELSE StrLess(Tail(f), Tail(g))

\* sorted(S) for a set of filenames.
RECURSIVE SortedNames(_)
SortedNames(S) ==
    IF S = {} THEN <<>>
    ELSE LET m == CHOOSE x \in S : \A y \in S \ {x} : StrLess(x, y)
         IN <<m>> \o SortedNames(S \ {m})

\* sorted(S) for a set of label values.
RECURSIVE SortedLabels(_)
SortedLabels(S) ==
    IF S = {} THEN <<>>
    ELSE LET m == CHOOSE x \in S : \A y \in S : x <= y
         IN <<m>> \o SortedLabels(S \ {m})

\* The filenames of the model's csv files.
A_JPG == <<"a", ".jpg">>
B_JPG == <<"b", ".jpg">>
A_PNG == <<"a", ".png">>
A_DUP0_JPG == <<"a", DupMarker, "0", ".jpg">>
C_JPG == <<"c", ".jpg">>

-----------------------------------------------------------------------------
(* Class labels as text: a label is a sequence of characters, so that the  *)
(* regular expressions of DataLoader.clean_class_names and of              *)
(* FeatureExtractor, and str.strip / str.title, are computed on the text   *)

LowerCase == <<"a", "b", "c", "d", "e", "f", "g", "h", "i", "j", "k", "l", "m",
               "n", "o", "p", "q", "r", "s", "t", "u", "v", "w", "x", "y", "z">>
UpperCase == <<"A", "B", "C", "D", "E", "F", "G", "H", "I", "J", "K", "L", "M",
               "N", "O", "P", "Q", "R", "S", "T", "U", "V", "W", "X", "Y", "Z">>

IsLower(c) == c \in Range(LowerCase)
IsUpper(c) == c \in Range(UpperCase)
IsAlpha(c) == IsLower(c) \/ IsUpper(c)
LetterIndex(c) == CHOOSE i \in 1..26 : LowerCase[i] = c \/ UpperCase[i] = c

\* str.lower / str.upper of one character
ToLower(c) == IF IsUpper(c) THEN LowerCase[LetterIndex(c)] ELSE c
ToUpper(c) == IF IsLower(c) THEN UpperCase[LetterIndex(c)] ELSE c

\* \s of the regular expressions, and the characters str.strip removes
IsSpace(c) == c = " "

\* \w of the regular expressions: a letter, a digit or the underscore
IsWordChar(c) == IsAlpha(c) \/ c = "_" \/ c \in Range(Digits)

\* The code point order of the characters: ' ' < digits < 'A'..'Z' < '_' < 'a'..'z'
CharRank(c) ==
    CASE c = " " -> 0
      [] c \in Range(Digits) -> 1 + (CHOOSE d \in 0..9 : Digits[d + 1] = c)
      [] IsUpper(c) -> 10 + LetterIndex(c)
      [] c = "_" -> 37
      [] IsLower(c) -> 37 + LetterIndex(c)

\* s < t as Python compares str.
RECURSIVE TextLess(_, _)
TextLess(s, t) ==
    IF t = <<>> THEN FALSE
    ELSE IF s = <<>> THEN TRUE
    ELSE IF s[1] # t[1] THEN CharRank(s[1]) < CharRank(t[1])
    ELSE TextLess(Tail(s), Tail(t))

\* The words the model's class labels are made of.
LEAF == <<"l", "e", "a", "f">>
Apple == <<"A", "p", "p", "l", "e">>
Tomato == <<"T", "o", "m", "a", "t", "o">>
Blight == <<"B", "l", "i", "g", "h", "t">>
Rust == <<"R", "u", "s", "t">>
Scab == <<"S", "c", "a", "b">>
HEALTHY == <<"h", "e", "a", "l", "t", "h", "y">>

\* Does the pattern (lower case) match s at position i, ignoring case?
MatchesAt(pat, s, i) ==
    /\ i + Len(pat) - 1 <= Len(s)
    /\ \A k \in DOMAIN pat : ToLower(s[i + k - 1]) = ToLower(pat[k])

\* re.sub(r'(?i)leaf', '', s): every occurrence, left to right, is removed.
RECURSIVE RemoveLeaf(_)
RemoveLeaf(s) ==
    IF s = <<>> THEN <<>>
    ELSE IF MatchesAt(LEAF, s, 1)
         THEN RemoveLeaf(SubSeq(s, Len(LEAF) + 1, Len(s)))
         ELSE <<s[1]>> \o RemoveLeaf(Tail(s))

\* str.lstrip / str.rstrip / str.strip
RECURSIVE LStrip(_)
LStrip(s) == IF s # <<>> /\ IsSpace(s[1]) THEN LStrip(Tail(s)) ELSE s

RECURSIVE RStrip(_)
RStrip(s) == IF s # <<>> /\ IsSpace(s[Len(s)])
             THEN RStrip(SubSeq(s, 1, Len(s) - 1)) ELSE s

Strip(s) == RStrip(LStrip(s))

\* re.sub(r'\s+', ' ', s): every run of whitespace becomes one space.
RECURSIVE CollapseWhitespace(_)
CollapseWhitespace(s) ==
    IF s = <<>> THEN <<>>
    ELSE IF IsSpace(s[1]) THEN <<" ">> \o CollapseWhitespace(LStrip(s))
         ELSE <<s[1]>> \o CollapseWhitespace(Tail(s))

\* re.sub(r'_', ' ', s)
ReplaceUnderscores(s) == [i \in DOMAIN s |-> IF s[i] = "_" THEN " " ELSE s[i]]

\* DataLoader.clean_class_names on one label: the four steps, in the order
\* of the code.
CleanText(s) == Strip(ReplaceUnderscores(CollapseWhitespace(RemoveLeaf(s))))

\* DataLoader.clean_class_names
clean_class_names(df) ==
    [i \in DOMAIN df |-> [df[i] EXCEPT !["class"] = CleanText(@)]]

\* PipelineConfig.plant_species, as PLANT_SPECIES configures it
plant_species == <<Apple, Tomato>>

\* rf"\b{plant}\b" matches text at position i (re.IGNORECASE); plant is made
\* of letters, so \b asks for no word character on either side.
WordAt(plant, text, i) ==
    /\ MatchesAt(plant, text, i)
    /\ i = 1 \/ ~IsWordChar(text[i - 1])
    /\ i + Len(plant) > Len(text) \/ ~IsWordChar(text[i + Len(plant)])

\* re.search(rf"\b{plant}\b", text, flags=re.IGNORECASE)
SearchWord(plant, text) == \E i \in DOMAIN text : WordAt(plant, text, i)

\* re.sub(rf"\b{plant}\b", "", text, flags=re.IGNORECASE), from position i on
RECURSIVE SubWordFrom(_, _, _)
SubWordFrom(plant, text, i) ==
    IF i > Len(text) THEN <<>>
    ELSE IF WordAt(plant, text, i) THEN SubWordFrom(plant, text, i + Len(plant))
         ELSE <<text[i]>> \o SubWordFrom(plant, text, i + 1)

\* str.title(): the first letter of every run of letters in upper case, the
\* others in lower case.
RECURSIVE TitleFrom(_, _)
TitleFrom(s, prev_cased) ==
    IF s = <<>> THEN <<>>
    ELSE <<IF ~IsAlpha(s[1]) THEN s[1]
           ELSE IF prev_cased THEN ToLower(s[1]) ELSE ToUpper(s[1])>>
         \o TitleFrom(Tail(s), IsAlpha(s[1]))

Title(s) == TitleFrom(s, FALSE)

\* FeatureExtractor.extract_species: the first plant found, or None
NoPlant == <<>>
extract_species(text) ==
    IF \E p \in DOMAIN plant_species : SearchWord(plant_species[p], text)
    THEN plant_species[CHOOSE p \in DOMAIN plant_species :
                           /\ SearchWord(plant_species[p], text)
                           /\ \A q \in 1..(p - 1) : ~SearchWord(plant_species[q], text)]
    ELSE NoPlant

\* The loop of extract_disease over the plants p..len(plant_species)
RECURSIVE RemovePlants(_, _)
RemovePlants(text, p) ==
    IF p > Len(plant_species) THEN text
    ELSE RemovePlants(Strip(SubWordFrom(plant_species[p], text, 1)), p + 1)

\* What extract_disease returns for a text that is empty without its plants.
DiseaseOfNoText == HEALTHY

\* FeatureExtractor.extract_disease
extract_disease(text) ==
    LET rest == RemovePlants(text, 1)
    IN IF rest # <<>> THEN Title(rest) ELSE DiseaseOfNoText

-----------------------------------------------------------------------------
(* pandas helpers *)

\* df[column].unique() as a set.
Unique(df, column) == {df[i][column] : i \in DOMAIN df}

\* The group of one key in df.groupby(column): its rows, in table order.
GroupOf(df, column, key) == SelectSeq(df, LAMBDA r : r[column] = key)

\* len(df[df[column] == key])
CountOf(df, column, key) == Len(GroupOf(df, column, key))

\* pd.concat of a sequence of tables.
RECURSIVE Concat(_)
Concat(dfs) == IF dfs = <<>> THEN <<>> ELSE Head(dfs) \o Concat(Tail(dfs))

-----------------------------------------------------------------------------
(* DataBalancer.balance_by_column *)

\* The k-th duplicate (k = duplicates_added, from 0) of a group of n rows.
Duplicate(group, k) ==
    LET idx == k % Len(group)
        sample == group[idx + 1]
        original_filename == sample.filename
        stem == PathStem(original_filename)
        suffix == PathSuffix(original_filename)
        new_filename == stem \o <<DupMarker>> \o Dec(k) \o suffix
    IN [sample EXCEPT !.filename = new_filename]

\* group.iloc[:t]
ILocHead(group, t) ==
    IF t >= 0 THEN SubSeq(group, 1, Min(t, Len(group)))
    ELSE SubSeq(group, 1, Max(0, Len(group) + t))

\* What one iteration of the loop over the groups appends to balanced_dfs.
BalanceGroupNoFill(group, target, keep) == group

BalanceGroupDownsample(group, target, keep) ==
    LET n_to_add == target - Len(group)
    IN IF n_to_add > 0
       THEN group \o [k \in 1..n_to_add |-> Duplicate(group, k - 1)]
       ELSE ILocHead(group, target)

BalanceGroup(group, target, keep) ==
    LET n_samples == Len(group)
        n_to_add == target - n_samples
    IN IF n_to_add > 0
       THEN group \o [k \in 1..n_to_add |-> Duplicate(group, k - 1)]
       ELSE IF keep THEN group
            ELSE ILocHead(group, target)

\* The table returned (pd.concat raises ValueError on an empty list: see
\* BalanceRaises).
balance_by_column(df, column, target, keep) ==
    LET keys == SortedLabels(Unique(df, column))
    IN Concat([i \in DOMAIN keys |->
                   BalanceGroup(GroupOf(df, column, keys[i]), target, keep)])

\* pd.concat([]) raises "No objects to concatenate".
BalanceRaises(df, column) == Unique(df, column) = {}


-----------------------------------------------------------------------------
(* A bare call of balance_by_column: any table, any target, either policy *)

BalFilenames == {A_JPG, B_JPG, A_PNG, A_DUP0_JPG}
BalClasses == {1, 2}
Splits == {"train", "val"}

\* The geometry of a row when nothing else is said: a 1 x 1 box in the corner
\* of a 2 x 2 image.
UnitBox == [xmin |-> 0, xmax |-> 1, ymin |-> 0, ymax |-> 1,
            width |-> 2, height |-> 2]

\* A csv table: row i carries bounding box i (an image may have several).
MkTable(t) == [i \in DOMAIN t |->
                  [filename |-> t[i][1], class |-> t[i][2], box |-> i] @@ UnitBox]

BalTables == {MkTable(t) : t \in TablesOver(BalFilenames \X BalClasses, MaxRows)}

NoFiles == [s \in Splits |-> {}]
NoLabels == [s \in Splits |-> <<>>]

\* The variables a bare call of the balancer does not use.
ExportIdle ==
    /\ class_mapping = None
    /\ source_images = NoFiles
    /\ output_images = NoFiles
    /\ output_labels = NoLabels
    /\ split = None
    /\ todo = <<>>
    /\ exported = 0
    /\ skipped = 0
    /\ status = <<>>
    /\ returned = <<>>
    /\ mapping_used = <<>>
    /\ dataset_yaml = <<>>
    /\ csv = None
    /\ image_size = <<>>
    /\ stages = <<>>

InitBal ==
    /\ pc = "balance_call"
    /\ pipeline_type = "none"
    /\ df_train \in BalTables
    /\ df_test = None
    /\ df_train_processed = None
    /\ df_test_processed = None
    /\ target_samples \in 1..MaxTarget
    /\ apply_balancing = TRUE
    /\ keep_above_target \in BOOLEAN
    /\ ExportIdle

\* balance_by_column returns df_balanced.
BalanceByColumn ==
    /\ pc = "balance_call"
    /\ ~BalanceRaises(df_train, "class")
    /\ df_train_processed' =
           balance_by_column(df_train, "class", target_samples, keep_above_target)
    /\ pc' = "balance_returned"
    /\ UNCHANGED <<pipeline_type, df_train, df_test, df_test_processed,
                   target_samples, apply_balancing, keep_above_target, class_mapping,
                   source_images, output_images, output_labels, split, todo,
                   exported, skipped, status, returned, mapping_used,
                   dataset_yaml, csv, image_size, stages>>

\* balance_by_column of a table with no group: pd.concat raises.
BalanceByColumnRaises ==
    /\ pc = "balance_call"
    /\ BalanceRaises(df_train, "class")
    /\ pc' = "balance_raised"
    /\ UNCHANGED <<pipeline_type, df_train, df_test, df_train_processed,
                   df_test_processed, target_samples, apply_balancing, keep_above_target,
                   class_mapping, source_images, output_images, output_labels,
                   split, todo, exported, skipped, status, returned,
                   mapping_used, dataset_yaml, csv, image_size, stages>>

NextBal == BalanceByColumn \/ BalanceByColumnRaises

SpecBal == InitBal /\ [][NextBal]_vars

-----------------------------------------------------------------------------
(* Claims about balance_by_column, checked under SpecBal *)

BalReturned == pc = "balance_returned"
BalIn(c) == GroupOf(df_train, "class", c)
BalOut(c) == GroupOf(df_train_processed, "class", c)
BalSeen == Unique(df_train, "class") \cup
           (IF BalReturned THEN Unique(df_train_processed, "class") ELSE {})

\* C1: with keep_above_target = True the returned table holds exactly T
\* records of every class that had n < T, exactly the n original records of
\* every class that had n >= T, and the same set of classes as the input.
C1_BalancedCounts ==
    (BalReturned /\ keep_above_target) =>
        /\ Unique(df_train_processed, "class") = Unique(df_train, "class")
        /\ \A c \in BalSeen :
               IF Len(BalIn(c)) < target_samples
               THEN Len(BalOut(c)) = target_samples
               ELSE BalOut(c) = BalIn(c)

C1_Witness ==
    /\ BalReturned /\ keep_above_target
    /\ \E c \in BalSeen : Len(BalIn(c)) < target_samples
    /\ \E c \in BalSeen : Len(BalIn(c)) >= target_samples
    /\ Len(df_train_processed) > Len(df_train)

\* The synthetic rows of class c: those appended after the n originals.
BalAdded(c) == SubSeq(BalOut(c), Len(BalIn(c)) + 1, Len(BalOut(c)))

\* The name the claim gives the k-th duplicate of class c.
DupName(c, k) ==
    LET src == BalIn(c)[(k % Len(BalIn(c))) + 1].filename
    IN PathStem(src) \o <<DupMarker>> \o Dec(k) \o PathSuffix(src)

\* First half of C2: T-n rows are added to a class with n < T, the k-th a
\* copy of the row at position k mod n renamed <stem>_dup<k><suffix>, and the
\* T-n new names are pairwise distinct.
C2_DuplicatesShape ==
    BalReturned =>
        \A c \in Unique(df_train, "class") :
            Len(BalIn(c)) < target_samples =>
                /\ SubSeq(BalOut(c), 1, Len(BalIn(c))) = BalIn(c)
                /\ Len(BalAdded(c)) = target_samples - Len(BalIn(c))
                /\ \A k \in 0..(target_samples - Len(BalIn(c)) - 1) :
                       BalAdded(c)[k + 1] =
                           [BalIn(c)[(k % Len(BalIn(c))) + 1]
                                EXCEPT !.filename = DupName(c, k)]
                /\ \A j, k \in DOMAIN BalAdded(c) :
                       j # k => BalAdded(c)[j].filename # BalAdded(c)[k].filename

\* Second half of C2: no synthetic name equals an original filename.
C2_NoCollisionWithOriginal ==
    BalReturned =>
        \A c \in Unique(df_train, "class") :
            Len(BalIn(c)) < target_samples =>
                \A k \in DOMAIN BalAdded(c) :
                    BalAdded(c)[k].filename \notin Unique(df_train, "filename")

\* C2: for a class with n < T records exactly T-n duplicates are added, the
\* k-th a copy of the record at position k mod n renamed <stem>_dup<k><suffix>;
\* the synthetic names are pairwise distinct and none of them equals an
\* original filename.
C2_DuplicateNames == C2_DuplicatesShape /\ C2_NoCollisionWithOriginal

\* C3 as stated: a class with n >= T is unchanged by balancing (whatever the
\* value of keep_above_target).
C3_AboveTargetUnchanged ==
    BalReturned =>
        \A c \in Unique(df_train, "class") :
            Len(BalIn(c)) >= target_samples => BalOut(c) = BalIn(c)

\* C3 amended: with keep_above_target = True (the default, which every
\* pipeline uses) a class with n >= T keeps exactly its records, fields and
\* filenames included, and gets no synthetic _dup record.
C3_AboveTargetUnchangedByDefault ==
    (BalReturned /\ keep_above_target) =>
        \A c \in Unique(df_train, "class") :
            Len(BalIn(c)) >= target_samples =>
                /\ Len(BalOut(c)) = Len(BalIn(c))
                /\ \A i \in DOMAIN BalIn(c) : BalOut(c)[i] = BalIn(c)[i]
                /\ BalAdded(c) = <<>>

C3_Witness ==
    /\ BalReturned /\ keep_above_target
    /\ \E c \in Unique(df_train, "class") :
           /\ Len(BalIn(c)) >= target_samples
           /\ Len(BalIn(c)) >= 2
    /\ \E c \in Unique(df_train, "class") : Len(BalIn(c)) < target_samples


-----------------------------------------------------------------------------
(* YOLOConverter.create_class_mapping *)

\* {cls: idx for idx, cls in enumerate(unique_classes)}
EnumerateFromOne(unique_classes) ==
    [cls \in Range(unique_classes) |->
        CHOOSE i \in DOMAIN unique_classes : unique_classes[i] = cls]

Enumerate(unique_classes) ==
    [cls \in Range(unique_classes) |->
        (CHOOSE i \in DOMAIN unique_classes : unique_classes[i] = cls) - 1]

create_class_mapping(df, column) ==
    LET unique_classes == SortedLabels(Unique(df, column))
    IN Enumerate(unique_classes)

-----------------------------------------------------------------------------
(* YOLOConverter.export_to_yolo: the loop over df.groupby("filename") *)

\* get_class_column() of the running pipeline ('class' is the default of
\* export_to_yolo's class_column).
ClassColumn ==
    CASE pipeline_type = "binary" -> "binary_class"
      [] pipeline_type = "species" -> "species"
      [] pipeline_type = "disease" -> "disease"
      [] OTHER -> "class"

\* The df argument of the running export_to_yolo call.
ExportDf == IF split = "train" THEN df_train_processed ELSE df_test_processed

\* The file looked up under source_images_dir for a group.
ExportSrc(filename) ==
    IF HasDup(filename)
    THEN SplitDupHead(filename) \o PathSuffix(filename)
    ELSE filename

\* output_labels_dir / (Path(filename).stem + ".txt")
LabelFile(filename) == PathStem(filename) \o <<".txt">>

\* A fraction num / den of two integers, den > 0.
Frac(num, den) == <<num, den>>

\* YOLOConverter.convert_bbox_to_yolo: (x_center, y_center, bbox_width,
\* bbox_height), each a fraction.
convert_bbox_to_yolo(row) ==
    <<Frac(row.xmin + row.xmax, 2 * row.width),
      Frac(row.ymin + row.ymax, 2 * row.height),
      Frac(row.xmax - row.xmin, row.width),
      Frac(row.ymax - row.ymin, row.height)>>

\* class_mapping[row[class_column]] or convert_bbox_to_yolo(row) raises
\* KeyError: the class is not a key of the mapping, or the row lacks a column.
RowRaises(row, mapping, column) ==
    \/ column \notin DOMAIN row
    \/ row[column] \notin DOMAIN mapping
    \/ ~({"xmin", "xmax", "ymin", "ymax", "width", "height"} \subseteq DOMAIN row)

\* The rows of a group written before class_mapping[...] raises KeyError
\* (all of them when every key is in the mapping).
RECURSIVE WritableRows(_, _, _)
WritableRows(group, mapping, column) ==
    IF group = <<>> \/ RowRaises(Head(group), mapping, column) THEN <<>>
    ELSE <<Head(group)>> \o WritableRows(Tail(group), mapping, column)

\* The lines of the label file: "<cls_idx> <box>" per row written.
LabelLines(group, mapping, column) ==
    LET rows == WritableRows(group, mapping, column)
    IN [i \in DOMAIN rows |->
           <<mapping[rows[i][column]]>> \o convert_bbox_to_yolo(rows[i])]

\* except Exception: skipped += 1
SkippedAfterErrorLost(n) == n

SkippedAfterError(n) == n + 1

\* Where control goes after the except clause: on to the next group.
AfterGroupErrorAbort == "aborted"

AfterGroupError == "export_loop"

\* The head of the loop: the group visited next.
CurGroup == GroupOf(ExportDf, "filename", Head(todo))

InLoop == pc = "export_loop" /\ todo # <<>>

Record(kind) == status' = (<<split, Head(todo)>> :> kind) @@ status

LoopFrame == UNCHANGED <<pipeline_type, df_train, df_test, df_train_processed,
                         df_test_processed, target_samples, apply_balancing, keep_above_target,
                         class_mapping, source_images, split, returned,
                         mapping_used, dataset_yaml, csv, image_size, stages>>

\* The first lines of export_to_yolo: counters, mkdir, groupby.
ExportBeginWith(s, mapping) ==
    /\ split' = s
    /\ exported' = 0
    /\ skipped' = 0
    /\ todo' = SortedNames(Unique(IF s = "train" THEN df_train_processed
                                  ELSE df_test_processed, "filename"))
    /\ mapping_used' = (s :> mapping) @@ mapping_used
    /\ pc' = "export_loop"

ExportToYolo ==
    /\ pc = "export_call"
    /\ ExportBeginWith("train", class_mapping)
    /\ UNCHANGED <<pipeline_type, df_train, df_test, df_train_processed,
                   df_test_processed, target_samples, apply_balancing, keep_above_target,
                   class_mapping, source_images, output_images, output_labels,
                   status, returned, dataset_yaml, csv, image_size, stages>>

\* if not src.exists(): skipped += 1; continue
ExportGroupMissingSource ==
    /\ InLoop
    /\ ExportSrc(Head(todo)) \notin source_images[split]
    /\ skipped' = skipped + 1
    /\ todo' = Tail(todo)
    /\ Record("missing_source")
    /\ UNCHANGED <<pc, exported, output_images, output_labels>>
    /\ LoopFrame

\* shutil.copy2 raises (an I/O failure): nothing is written.
ExportGroupCopyFails ==
    /\ InLoop
    /\ ExportSrc(Head(todo)) \in source_images[split]
    /\ skipped' = SkippedAfterError(skipped)
    /\ pc' = AfterGroupError
    /\ todo' = Tail(todo)
    /\ Record("copy_error")
    /\ UNCHANGED <<exported, output_images, output_labels>>
    /\ LoopFrame

\* The image is copied, then open(label_file, "w") raises.
ExportGroupOpenFails ==
    /\ InLoop
    /\ ExportSrc(Head(todo)) \in source_images[split]
    /\ output_images' = [output_images EXCEPT ![split] = @ \cup {Head(todo)}]
    /\ skipped' = SkippedAfterError(skipped)
    /\ pc' = AfterGroupError
    /\ todo' = Tail(todo)
    /\ Record("open_error")
    /\ UNCHANGED <<exported, output_labels>>
    /\ LoopFrame

\* The image is copied, the label file is opened, and class_mapping[...]
\* raises KeyError at the first row whose class is not a key: the file keeps
\* the lines written before it.
ExportGroupKeyError ==
    /\ InLoop
    /\ ExportSrc(Head(todo)) \in source_images[split]
    /\ \E i \in DOMAIN CurGroup : RowRaises(CurGroup[i], class_mapping, ClassColumn)
    /\ output_images' = [output_images EXCEPT ![split] = @ \cup {Head(todo)}]
    /\ output_labels' = [output_labels EXCEPT ![split] =
           (LabelFile(Head(todo)) :> LabelLines(CurGroup, class_mapping, ClassColumn)) @@ @]
    /\ skipped' = SkippedAfterError(skipped)
    /\ pc' = AfterGroupError
    /\ todo' = Tail(todo)
    /\ Record("key_error")
    /\ UNCHANGED exported
    /\ LoopFrame

\* The image is copied and every row of the group is written: exported += 1
ExportGroupWritten ==
    /\ InLoop
    /\ ExportSrc(Head(todo)) \in source_images[split]
    /\ \A i \in DOMAIN CurGroup : ~RowRaises(CurGroup[i], class_mapping, ClassColumn)
    /\ output_images' = [output_images EXCEPT ![split] = @ \cup {Head(todo)}]
    /\ output_labels' = [output_labels EXCEPT ![split] =
           (LabelFile(Head(todo)) :> LabelLines(CurGroup, class_mapping, ClassColumn)) @@ @]
    /\ exported' = exported + 1
    /\ todo' = Tail(todo)
    /\ Record("exported")
    /\ UNCHANGED <<pc, skipped>>
    /\ LoopFrame

\* return exported, skipped
ExportReturn ==
    /\ pc = "export_loop"
    /\ todo = <<>>
    /\ returned' = (split :> <<exported, skipped>>) @@ returned
    /\ pc' = "export_returned"
    /\ UNCHANGED <<pipeline_type, df_train, df_test, df_train_processed,
                   df_test_processed, target_samples, apply_balancing, keep_above_target,
                   class_mapping, source_images, output_images, output_labels,
                   split, todo, exported, skipped, status, mapping_used,
                   dataset_yaml, csv, image_size, stages>>

-----------------------------------------------------------------------------
(* A bare call of export_to_yolo: any table, any source directory, a       *)
(* mapping that may lack a class of the table, a disk that may fail        *)

ExpFilenames == {A_JPG, A_PNG, A_DUP0_JPG}
ExpTables == {MkTable(t) : t \in TablesOver(ExpFilenames \X BalClasses, MaxExportRows)}
ExpMappings == {Enumerate(SortedLabels(S)) : S \in {{1, 2}, {2}}}

InitExport ==
    /\ pc = "export_call"
    /\ pipeline_type = "none"
    /\ df_train = None
    /\ df_test = None
    /\ df_train_processed \in ExpTables
    /\ df_test_processed = None
    /\ target_samples = 0
    /\ apply_balancing = FALSE
    /\ keep_above_target = TRUE
    /\ class_mapping \in ExpMappings
    /\ \E S \in SUBSET ExpFilenames : source_images = [NoFiles EXCEPT !["train"] = S]
    /\ output_images = NoFiles
    /\ output_labels = NoLabels
    /\ split = None
    /\ todo = <<>>
    /\ exported = 0
    /\ skipped = 0
    /\ status = <<>>
    /\ returned = <<>>
    /\ mapping_used = <<>>
    /\ dataset_yaml = <<>>
    /\ csv = None
    /\ image_size = <<>>
    /\ stages = <<>>

NextExport ==
    \/ ExportToYolo
    \/ ExportGroupMissingSource
    \/ ExportGroupCopyFails
    \/ ExportGroupOpenFails
    \/ ExportGroupKeyError
    \/ ExportGroupWritten
    \/ ExportReturn

SpecExport == InitExport /\ [][NextExport]_vars

\* The same call on a disk that does not fail: the only exception left is
\* the KeyError of a class missing from the mapping.
NextExportSound ==
    \/ ExportToYolo
    \/ ExportGroupMissingSource
    \/ ExportGroupKeyError
    \/ ExportGroupWritten
    \/ ExportReturn

SpecExportSound == InitExport /\ [][NextExportSound]_vars


-----------------------------------------------------------------------------
(* Claims about export_to_yolo, checked under SpecExport *)

ExpReturned == pc = "export_returned"
ExpNames == Unique(ExportDf, "filename")
ErrorKinds == {"copy_error", "open_error", "key_error"}
Ended(kind) == {f \in ExpNames : <<split, f>> \in DOMAIN status
                                 /\ status[<<split, f>>] = kind}
EndedIn(kinds) == UNION {Ended(k) : k \in kinds}

\* The group of f is the only one of the table that writes its label path.
OwnLabelFile(f) == \A g \in ExpNames : g # f => LabelFile(g) # LabelFile(f)

ImageCopied(f) == f \in output_images[split]
LabelWritten(f) == LabelFile(f) \in DOMAIN output_labels[split]
LabelComplete(f) ==
    /\ LabelWritten(f)
    /\ Len(output_labels[split][LabelFile(f)]) = Len(GroupOf(ExportDf, "filename", f))

\* C4: after the call, for every filename group the image is in the
\* destination directory if and only if its label file was written with one
\* line per box of the group, and a group counted as skipped left neither an
\* image nor a label file.
C4_NoPartialExport ==
    ExpReturned =>
        \A f \in ExpNames :
            OwnLabelFile(f) =>
                /\ ImageCopied(f) <=> LabelComplete(f)
                /\ f \notin Ended("exported") => ~ImageCopied(f) /\ ~LabelWritten(f)

\* C5: export_to_yolo returns (exported, skipped) with exported + skipped
\* equal to the number of distinct filenames of the table.
C5_CountsAddUp ==
    ExpReturned =>
        returned[split][1] + returned[split][2] = Cardinality(ExpNames)

C5_Witness ==
    /\ ExpReturned
    /\ Ended("missing_source") # {}
    /\ Ended("key_error") # {}
    /\ Ended("exported") # {}
    /\ returned[split] = <<1, 2>>

\* C6: an exception raised while a group is processed is caught and counted
\* once in skipped, the call is never aborted, and when it returns every
\* group of the table has been visited.
C6_ExceptionsCaught ==
    /\ pc \in {"export_call", "export_loop", "export_returned"}
    /\ pc # "export_call" =>
           /\ skipped = Cardinality(EndedIn(ErrorKinds \cup {"missing_source"}))
           /\ exported = Cardinality(Ended("exported"))
    /\ ExpReturned => \A f \in ExpNames : <<split, f>> \in DOMAIN status

C6_Witness ==
    /\ ExpReturned
    /\ \E f, g \in ExpNames :
           /\ StrLess(f, g)
           /\ f \in EndedIn(ErrorKinds)
           /\ g \in Ended("exported")
    /\ Ended("missing_source") = {}
    /\ skipped = 1


-----------------------------------------------------------------------------
(* A bare call of create_class_mapping on any table *)

MapClasses == {1, 2, 3}
MapTables == {MkTable(t) : t \in TablesOver({A_JPG, B_JPG} \X MapClasses, MaxRows)}

InitMap ==
    /\ pc = "mapping_call"
    /\ pipeline_type = "none"
    /\ df_train = None
    /\ df_test = None
    /\ df_train_processed \in MapTables
    /\ df_test_processed = None
    /\ target_samples = 0
    /\ apply_balancing = FALSE
    /\ keep_above_target = TRUE
    /\ ExportIdle

CreateClassMapping ==
    /\ pc = "mapping_call"
    /\ class_mapping' = create_class_mapping(df_train_processed, "class")
    /\ pc' = "mapping_returned"
    /\ UNCHANGED <<pipeline_type, df_train, df_test, df_train_processed,
                   df_test_processed, target_samples, apply_balancing,
                   keep_above_target, source_images, output_images,
                   output_labels, split, todo, exported, skipped, status,
                   returned, mapping_used, dataset_yaml, csv, image_size, stages>>

NextMap == CreateClassMapping

SpecMap == InitMap /\ [][NextMap]_vars

\* C8: the mapping is a bijection between the distinct values of the label
\* column and 0..k-1, k the number of distinct values, and it is increasing:
\* v1 < v2 implies mapping[v1] < mapping[v2].
C8_MappingBijection ==
    pc = "mapping_returned" =>
        LET values == Unique(df_train_processed, "class")
            k == Cardinality(values)
        IN /\ DOMAIN class_mapping = values
           /\ {class_mapping[v] : v \in values} = 0..(k - 1)
           /\ \A v1, v2 \in values : v1 < v2 => class_mapping[v1] < class_mapping[v2]

C8_Witness ==
    /\ pc = "mapping_returned"
    /\ Cardinality(DOMAIN class_mapping) = 3
    /\ df_train_processed[1]["class"] = 3
    /\ df_train_processed[2]["class"] = 1


-----------------------------------------------------------------------------
(* The pipelines: BasePipeline.run of a Binary-, Species- or DiseasePipeline *)

PipelineTypes == {"binary", "species", "disease"}

\* The columns load, validation and export read from a csv source.
RequiredColumns == {"filename", "class", "xmin", "xmax", "ymin", "ymax",
                    "width", "height"}

\* The raw class texts of the csv files of a full run: 'Tomato leaf',
\* 'Apple Rust', 'Scab' and 'Tomato_Blight'.
ClassTexts == {Tomato \o <<" ">> \o LEAF, Apple \o <<" ">> \o Rust, Scab,
               Tomato \o <<"_">> \o Blight}

\* The raw class texts of the runs that look at label cleaning: a plant or
\* nothing, separators, 'leaf' in some case or nothing, separators, and a
\* disease word or nothing.  A separator is a run of at most MaxSeparators
\* underscores and spaces.
RECURSIVE SeparatorsOf(_)
SeparatorsOf(n) == IF n = 0 THEN {<<>>}
                   ELSE {<<c>> \o t : c \in {"_", " "}, t \in SeparatorsOf(n - 1)}

Separators == UNION {SeparatorsOf(n) : n \in 0..MaxSeparators}

RawTexts ==
    {plant \o s1 \o leaf \o s2 \o word :
        plant \in {<<>>, Tomato}, s1 \in Separators,
        leaf \in {<<>>, LEAF, <<"L", "e", "a", "f">>}, s2 \in Separators,
        word \in {<<>>, Blight, HEALTHY}}

\* PipelineConfig.excluded_diseases
Mold == <<"M", "o", "l", "d">>
Spot == <<"S", "p", "o", "t">>
BlackRot == <<"B", "l", "a", "c", "k", " ", "R", "o", "t">>
GraySpot == <<"G", "r", "a", "y", " ", "S", "p", "o", "t">>
ExcludedTexts == {Blight, Mold, Spot, BlackRot, GraySpot}

\* Every species and disease text the model's sources can produce.  A label
\* value of a table is the rank of its text among them, so that the numeric
\* order of label values is the str order of the labels.
LabelTexts ==
    {extract_disease(CleanText(raw)) : raw \in ClassTexts \cup RawTexts}
        \cup Range(plant_species) \cup ExcludedTexts \cup {HEALTHY}

LabelCode(text) == 1 + Cardinality({u \in LabelTexts : TextLess(u, text)})

\* None, the species of a text that names no plant
NoSpecies == 0

\* 'healthy', the disease of a text that names nothing but a plant
healthy == LabelCode(HEALTHY)

excluded_diseases == {LabelCode(text) : text \in ExcludedTexts}

\* PipelineConfig.rare_disease_threshold = 0.001, in thousandths.
rare_disease_threshold == 1

\* FeatureExtractor.add_features
add_features(df) ==
    [i \in DOMAIN df |->
        ("species" :> (LET plant == extract_species(df[i]["class"])
                       IN IF plant = NoPlant THEN NoSpecies ELSE LabelCode(plant)))
        @@ ("disease" :> LabelCode(extract_disease(df[i]["class"])))
        @@ df[i]]

-----------------------------------------------------------------------------
(* DataValidator *)

\* (image_folder / row['filename']).exists()
Exists(files, row) == row.filename \in files

\* row['width'] == 0 or row['height'] == 0
ZeroDimension(row) == row.width = 0 \/ row.height = 0

\* The content of an image file Image.open cannot read (a readable file is
\* its size, a pair).
Unreadable == <<>>

\* fix_zero_dimensions raises: a row without the column the test reads
\* (KeyError), or Image.open fails on a file that exists.
FixRaises(df, files, sizes) ==
    \E i \in DOMAIN df :
        \/ "width" \notin DOMAIN df[i]
        \/ /\ "width" \in DOMAIN df[i]
           /\ "height" \notin DOMAIN df[i]
           /\ df[i].width # 0
        \/ /\ {"width", "height"} \subseteq DOMAIN df[i]
           /\ ZeroDimension(df[i])
           /\ Exists(files, df[i])
           /\ sizes[df[i].filename] = Unreadable

\* DataValidator.fix_zero_dimensions, when it returns
fix_zero_dimensions(df, files, sizes) ==
    [i \in DOMAIN df |->
        IF ZeroDimension(df[i]) /\ Exists(files, df[i])
        THEN [df[i] EXCEPT !.width = sizes[df[i].filename][1],
                           !.height = sizes[df[i].filename][2]]
        ELSE df[i]]

\* DataValidator.verify_files_exist
verify_files_existKeepAll(df, files) == df

verify_files_exist(df, files) == SelectSeq(df, LAMBDA row : Exists(files, row))

-----------------------------------------------------------------------------
(* BasePipeline.run, up to the filter stage *)

\* pd.read_csv of a source: the rows, with the columns the file has.
ReadCsv(source) ==
    [i \in DOMAIN source.rows |->
        [c \in DOMAIN source.rows[i] \cap (source.columns \cup {"box"}) |->
            source.rows[i][c]]]

\* load_and_clean raises: read_csv fails, or df['filename'] (load_data) or
\* df['class'] (clean_class_names) is a KeyError.
LoadRaises ==
    \E s \in {"train", "test"} :
        ~csv[s].readable \/ ~({"filename", "class"} \subseteq csv[s].columns)

\* A csv source that can be read and has every column.
Source(rows) == [readable |-> TRUE, columns |-> RequiredColumns, rows |-> rows]

\* The directories in which every image a csv names exists.
FilesNamed(sources) ==
    [train |-> Unique(sources.train.rows, "filename"),
     val |-> Unique(sources.test.rows, "filename")]

\* The image files of the model are 2 x 2 unless said otherwise.
AllReadable(files) == [f \in files["train"] \cup files["val"] |-> <<2, 2>>]

\* The csv files of a full run; every image named exists and can be read.
\* The evaluation csv has a healthy, a nameless and an excluded label.
TrainCsvs == {MkTable(t) : t \in TablesOver({A_JPG, A_DUP0_JPG} \X ClassTexts, MaxTrainRows)}
TestCsvs ==
    {MkTable(t) : t \in TablesOver({C_JPG} \X (ClassTexts \ {Apple \o <<" ">> \o Rust}),
                                   MaxTestRows)}

PipeSources ==
    {[train |-> Source(train), test |-> Source(test)] :
        train \in TrainCsvs, test \in TestCsvs}
    \cup {[train |-> [Source(<<>>) EXCEPT !.readable = FALSE], test |-> Source(<<>>)]}

\* A pipeline object just constructed; the csv files and the image
\* directories are whatever the caller says.
InitRun ==
    /\ pc = "run"
    /\ df_train = None
    /\ df_test = None
    /\ df_train_processed = None
    /\ df_test_processed = None
    /\ target_samples = 0
    /\ apply_balancing = FALSE
    /\ keep_above_target = TRUE
    /\ class_mapping = None
    /\ output_images = NoFiles
    /\ output_labels = NoLabels
    /\ split = None
    /\ todo = <<>>
    /\ exported = 0
    /\ skipped = 0
    /\ status = <<>>
    /\ returned = <<>>
    /\ mapping_used = <<>>
    /\ dataset_yaml = <<>>
    /\ stages = <<>>

InitPipe ==
    /\ InitRun
    /\ pipeline_type \in PipelineTypes
    /\ csv \in PipeSources
    /\ source_images = FilesNamed(csv)
    /\ image_size = AllReadable(source_images)

\* The variables the load stages leave alone.
LoadFrame == UNCHANGED <<pipeline_type, df_train_processed, df_test_processed,
                         target_samples, apply_balancing, keep_above_target,
                         class_mapping, source_images, output_images,
                         output_labels, todo, exported, skipped, status,
                         returned, mapping_used, dataset_yaml, csv, image_size>>

\* DataLoader.load_and_clean
LoadAndClean ==
    /\ pc = "run"
    /\ ~LoadRaises
    /\ df_train' = clean_class_names(ReadCsv(csv.train))
    /\ df_test' = clean_class_names(ReadCsv(csv.test))
    /\ stages' = Append(stages, "LOAD")
    /\ pc' = "add_features"
    /\ UNCHANGED split
    /\ LoadFrame

\* DataLoader.load_and_clean raises: the run ends with the exception.
LoadAndCleanRaises ==
    /\ pc = "run"
    /\ LoadRaises
    /\ stages' = Append(stages, "LOAD")
    /\ pc' = "aborted"
    /\ UNCHANGED <<df_train, df_test, split>>
    /\ LoadFrame

\* FeatureExtractor.add_features on both tables
AddFeatures ==
    /\ pc = "add_features"
    /\ df_train' = add_features(df_train)
    /\ df_test' = add_features(df_test)
    /\ stages' = Append(stages, "EXTRACT_FEATURES")
    /\ pc' = "fix_zero_dimensions"
    /\ split' = "train"
    /\ LoadFrame

\* The table validate_and_fix is working on: the training table, then the
\* evaluation table.
Validated == IF split = "train" THEN df_train ELSE df_test

SetValidated(df) ==
    IF split = "train" THEN df_train' = df /\ UNCHANGED df_test
    ELSE df_test' = df /\ UNCHANGED df_train

EnterValidate ==
    stages' = IF split = "train" THEN Append(stages, "VALIDATE") ELSE stages

\* DataValidator.fix_zero_dimensions returns
FixZeroDimensions ==
    /\ pc = "fix_zero_dimensions"
    /\ ~FixRaises(Validated, source_images[split], image_size)
    /\ SetValidated(fix_zero_dimensions(Validated, source_images[split], image_size))
    /\ EnterValidate
    /\ pc' = "verify_files_exist"
    /\ UNCHANGED split
    /\ LoadFrame

\* DataValidator.fix_zero_dimensions raises
FixZeroDimensionsRaises ==
    /\ pc = "fix_zero_dimensions"
    /\ FixRaises(Validated, source_images[split], image_size)
    /\ EnterValidate
    /\ pc' = "aborted"
    /\ UNCHANGED <<df_train, df_test, split>>
    /\ LoadFrame

\* Where load_and_prepare_data and run go on after validate_and_fix of a
\* split returns: to the validation of the evaluation table, then to
\* filter_data.
AfterValidateSkipsFilter(s) ==
    IF s = "train" THEN "fix_zero_dimensions" ELSE "balance_data"

AfterValidate(s) ==
    IF s = "train" THEN "fix_zero_dimensions" ELSE "filter_data"

\* DataValidator.verify_files_exist; validate_and_fix returns.
VerifyFilesExist ==
    /\ pc = "verify_files_exist"
    /\ SetValidated(verify_files_exist(Validated, source_images[split]))
    /\ split' = "val"
    /\ pc' = AfterValidate(split)
    /\ UNCHANGED stages
    /\ LoadFrame

\* BinaryPipeline.filter_data: (df['disease'] != 'healthy').astype(int)
BinaryFilter(df) ==
    [i \in DOMAIN df |->
        ("binary_class" :> (IF df[i].disease # healthy THEN 1 ELSE 0)) @@ df[i]]

\* SpeciesPipeline.filter_data: df[df['species'].notna()]
SpeciesFilter(df) == SelectSeq(df, LAMBDA r : r.species # NoSpecies)

\* DiseasePipeline.filter_data, steps 1 to 3: the diseases removed.
AllExcluded(train) ==
    LET df_diseases_train == SelectSeq(train, LAMBDA r : r.disease # healthy)
        rare_diseases ==
            {d \in Unique(df_diseases_train, "disease") :
                CountOf(df_diseases_train, "disease", d) * 1000
                    < rare_disease_threshold * Len(df_diseases_train)}
    IN rare_diseases \cup excluded_diseases

\* DiseasePipeline.filter_data, steps 1 and 4, on either split.
DiseaseFilter(df, train) ==
    LET all_excluded == AllExcluded(train)
    IN SelectSeq(df, LAMBDA r : r.disease # healthy /\ r.disease \notin all_excluded)

\* filter_data of the running pipeline
FilterData ==
    /\ pc = "filter_data"
    /\ df_train' = CASE pipeline_type = "binary" -> BinaryFilter(df_train)
                     [] pipeline_type = "species" -> SpeciesFilter(df_train)
                     [] pipeline_type = "disease" -> DiseaseFilter(df_train, df_train)
    /\ df_test' = CASE pipeline_type = "binary" -> BinaryFilter(df_test)
                    [] pipeline_type = "species" -> SpeciesFilter(df_test)
                    [] pipeline_type = "disease" -> DiseaseFilter(df_test, df_train)
    /\ stages' = Append(stages, "FILTER")
    /\ pc' = "balance_data"
    /\ UNCHANGED split
    /\ LoadFrame


-----------------------------------------------------------------------------
(* balance_data: the prompt and the balancing it decides *)

\* distribution.min(), of a table that has rows
MinCount(df, column) ==
    LET counts == {CountOf(df, column, c) : c \in Unique(df, column)}
    IN CHOOSE m \in counts : \A n \in counts : m <= n

\* max_possible: distribution.min() in the binary pipeline, distribution.min()
\* * 2 in the other two.
MaxPossible ==
    IF pipeline_type = "binary" THEN MinCount(df_train, ClassColumn)
    ELSE MinCount(df_train, ClassColumn) * 2

\* target_samples > max_possible (never true of NaN, the min() of no rows)
ExceedsMaxPossible(t) == df_train # <<>> /\ t > MaxPossible

PromptFrame == UNCHANGED <<pipeline_type, df_train, df_test, keep_above_target,
                           class_mapping, source_images, output_images,
                           output_labels, split, todo, exported, skipped,
                           status, returned, mapping_used, dataset_yaml, csv, image_size, stages>>

\* A prompt is shown again: nothing but the position changes.
Reprompt(at) ==
    /\ pc' = at
    /\ UNCHANGED <<df_train_processed, df_test_processed>>
    /\ PromptFrame

\* The lines after the prompt, when balancing was chosen with target t.
\* balance_by_column raises on a training set without rows, and the run ends.
ApplyBalancingBothSplits(t) ==
    /\ target_samples' = t
    /\ IF BalanceRaises(df_train, ClassColumn)
       THEN /\ pc' = "aborted"
            /\ UNCHANGED <<df_train_processed, df_test_processed>>
       ELSE /\ df_train_processed' =
                   balance_by_column(df_train, ClassColumn, t, keep_above_target)
            /\ df_test_processed' =
                   balance_by_column(df_test, ClassColumn, t, keep_above_target)
            /\ pc' = "export_data"
    /\ PromptFrame

ApplyBalancing(t) ==
    /\ target_samples' = t
    /\ IF BalanceRaises(df_train, ClassColumn)
       THEN /\ pc' = "aborted"
            /\ UNCHANGED <<df_train_processed, df_test_processed>>
       ELSE /\ df_train_processed' =
                   balance_by_column(df_train, ClassColumn, t, keep_above_target)
            /\ df_test_processed' = df_test
            /\ pc' = "export_data"
    /\ PromptFrame

\* balance_data is entered: the distribution is computed and the options are
\* printed.
BalanceData ==
    /\ pc = "balance_data"
    /\ stages' = Append(stages, "BALANCE")
    /\ pc' = "balance_choice"
    /\ UNCHANGED <<df_train, df_test, split>>
    /\ LoadFrame

\* choice == '1'
BalanceChooseTarget ==
    /\ pc = "balance_choice"
    /\ apply_balancing' = TRUE
    /\ UNCHANGED target_samples
    /\ Reprompt("balance_target")

\* choice == '2': keep the natural distribution
BalanceChooseNatural ==
    /\ pc = "balance_choice"
    /\ apply_balancing' = FALSE
    /\ df_train_processed' = df_train
    /\ df_test_processed' = df_test
    /\ pc' = "export_data"
    /\ UNCHANGED target_samples
    /\ PromptFrame

\* any other choice
BalanceChoiceInvalid ==
    /\ pc = "balance_choice"
    /\ UNCHANGED <<target_samples, apply_balancing>>
    /\ Reprompt("balance_choice")

\* Where control goes after except ValueError: back to the target prompt.
AfterValueErrorAbort == "aborted"

AfterValueError == "balance_target"

\* int(input(...)) raises ValueError
BalanceTargetNotANumber ==
    /\ pc = "balance_target"
    /\ UNCHANGED <<target_samples, apply_balancing>>
    /\ Reprompt(AfterValueError)

\* a number that is not positive
BalanceTargetNotPositive ==
    /\ pc = "balance_target"
    /\ \E t \in {0} :
           /\ ~ExceedsMaxPossible(t)
           /\ target_samples' = t
    /\ UNCHANGED apply_balancing
    /\ Reprompt("balance_target")

\* a number above max_possible: the warning, then the confirmation prompt
BalanceTargetWarned ==
    /\ pc = "balance_target"
    /\ \E t \in 1..MaxTrainRows :
           /\ ExceedsMaxPossible(t)
           /\ target_samples' = t
    /\ UNCHANGED apply_balancing
    /\ Reprompt("balance_confirm")

\* a positive number within max_possible
BalanceTargetAccepted ==
    /\ pc = "balance_target"
    /\ \E t \in 1..MaxTrainRows :
           /\ ~ExceedsMaxPossible(t)
           /\ t > 0
           /\ ApplyBalancing(t)
    /\ UNCHANGED apply_balancing

\* confirm == 'y'
BalanceConfirmYes ==
    /\ pc = "balance_confirm"
    /\ ApplyBalancing(target_samples)
    /\ UNCHANGED apply_balancing

\* any other answer: back to the target prompt
BalanceConfirmNo ==
    /\ pc = "balance_confirm"
    /\ UNCHANGED <<target_samples, apply_balancing>>
    /\ Reprompt("balance_target")

-----------------------------------------------------------------------------
(* BasePipeline.export_data *)

\* The class_mapping argument of the validation export.
MappingForValRebuilt == create_class_mapping(df_test_processed, ClassColumn)

MappingForVal == class_mapping

\* 'names': {idx: name for name, idx in class_mapping.items()}
Invert(mapping) ==
    [idx \in {mapping[name] : name \in DOMAIN mapping} |->
        CHOOSE name \in DOMAIN mapping : mapping[name] = idx]

\* YOLOConverter.create_yaml_config: the nc and names entries of dataset.yaml
create_yaml_config(mapping) ==
    [nc |-> Cardinality(DOMAIN mapping), names |-> Invert(mapping)]

\* export_data up to the start of the training export
ExportData ==
    /\ pc = "export_data"
    /\ LET mapping == create_class_mapping(df_train_processed, ClassColumn)
       IN /\ class_mapping' = mapping
          /\ ExportBeginWith("train", mapping)
    /\ stages' = Append(stages, "EXPORT")
    /\ UNCHANGED <<pipeline_type, df_train, df_test, df_train_processed,
                   df_test_processed, target_samples, apply_balancing,
                   keep_above_target, source_images, output_images,
                   output_labels, status, returned, dataset_yaml, csv, image_size>>

\* the training export has returned: start the validation export
ExportValidationData ==
    /\ pc = "export_returned"
    /\ split = "train"
    /\ ExportBeginWith("val", MappingForVal)
    /\ UNCHANGED <<pipeline_type, df_train, df_test, df_train_processed,
                   df_test_processed, target_samples, apply_balancing,
                   keep_above_target, class_mapping, source_images,
                   output_images, output_labels, status, returned,
                   dataset_yaml, csv, image_size, stages>>

\* both exports have returned: write dataset.yaml
CreateYamlConfig ==
    /\ pc = "export_returned"
    /\ split = "val"
    /\ dataset_yaml' = ("dataset.yaml" :> create_yaml_config(class_mapping))
    /\ mapping_used' = ("yaml" :> class_mapping) @@ mapping_used
    /\ pc' = "done"
    /\ UNCHANGED <<pipeline_type, df_train, df_test, df_train_processed,
                   df_test_processed, target_samples, apply_balancing,
                   keep_above_target, class_mapping, source_images,
                   output_images, output_labels, split, todo, exported,
                   skipped, status, returned, csv, image_size, stages>>

\* One run of a pipeline, on a disk that does not fail.
NextPipe ==
    \/ LoadAndClean
    \/ LoadAndCleanRaises
    \/ AddFeatures
    \/ FixZeroDimensions
    \/ VerifyFilesExist
    \/ FilterData
    \/ BalanceData
    \/ BalanceChooseTarget
    \/ BalanceChooseNatural
    \/ BalanceChoiceInvalid
    \/ BalanceTargetNotANumber
    \/ BalanceTargetNotPositive
    \/ BalanceTargetWarned
    \/ BalanceTargetAccepted
    \/ BalanceConfirmYes
    \/ BalanceConfirmNo
    \/ ExportData
    \/ ExportGroupMissingSource
    \/ ExportGroupKeyError
    \/ ExportGroupWritten
    \/ ExportReturn
    \/ ExportValidationData
    \/ CreateYamlConfig

SpecPipe == InitPipe /\ [][NextPipe]_vars


-----------------------------------------------------------------------------
(* Claims about a pipeline run, checked under SpecPipe *)

KeyErrorSeen == \E k \in DOMAIN status : status[k] = "key_error"
YamlWritten == "dataset.yaml" \in DOMAIN dataset_yaml
Yaml == dataset_yaml["dataset.yaml"]
SkippedIn(s) == {k \in DOMAIN status : k[1] = s /\ status[k] # "exported"}

\* C7 as stated: a class without an entry in the mapping is fatal, so a run
\* that met one never goes on to write the manifest.
C7_UnknownClassIsFatal == KeyErrorSeen => ~YamlWritten

\* C7 amended: a class without an entry in the mapping is not fatal.  The
\* KeyError is caught inside export_to_yolo and the group is counted as
\* skipped; the run is not aborted, the export returns and the manifest is
\* written.
C7_UnknownClassIsSkipped ==
    KeyErrorSeen =>
        /\ pc \in {"export_loop", "export_returned", "done"}
        /\ pc = "done" =>
               /\ YamlWritten
               /\ returned["val"][2] = Cardinality(SkippedIn("val"))
               /\ returned["val"][1] + returned["val"][2]
                      = Cardinality(Unique(df_test_processed, "filename"))

C7_Witness ==
    /\ pc = "done"
    /\ KeyErrorSeen
    /\ YamlWritten
    /\ returned["train"][1] >= 1
    /\ returned["val"] = <<0, 1>>

\* C9: the mapping handed to the training export, to the validation export
\* and to create_yaml_config is the one mapping built from the processed
\* training set; the manifest is written only after both exports returned,
\* with nc the size of the mapping and names the mapping inverted.
C9_OneMappingPerRun ==
    /\ \A use \in DOMAIN mapping_used :
           /\ mapping_used[use] = class_mapping
           /\ class_mapping = create_class_mapping(df_train_processed, ClassColumn)
    /\ YamlWritten =>
           /\ DOMAIN mapping_used = {"train", "val", "yaml"}
           /\ DOMAIN returned = {"train", "val"}
           /\ Yaml.nc = Cardinality(DOMAIN class_mapping)
           /\ DOMAIN Yaml.names = 0..(Yaml.nc - 1)
           /\ \A name \in DOMAIN class_mapping :
                  Yaml.names[class_mapping[name]] = name

C9_Witness ==
    /\ pc = "done"
    /\ Yaml.nc = 2
    /\ apply_balancing
    /\ returned["val"][1] = 1
    /\ Unique(df_test_processed, ClassColumn) # Unique(df_train_processed, ClassColumn)

\* C10: once balance_data has run, whatever was decided at the prompt, the
\* processed evaluation set is the filtered evaluation set, record for
\* record, and none of its filenames carries a _dup suffix.
C10_EvalNeverBalanced ==
    pc \in {"export_data", "export_loop", "export_returned", "done"} =>
        /\ df_test_processed = df_test
        /\ \A i \in DOMAIN df_test_processed : ~HasDup(df_test_processed[i].filename)

C10_Witness ==
    /\ pc = "done"
    /\ apply_balancing
    /\ Len(df_train_processed) > Len(df_train)
    /\ df_test_processed # <<>>
    /\ target_samples > Len(df_test)


-----------------------------------------------------------------------------
(* A binary run on one training record whose raw class text is any of      *)
(* RawTexts, followed from the csv to the end of the filter stage          *)

InitText ==
    /\ InitRun
    /\ pipeline_type = "binary"
    /\ \E raw \in RawTexts :
           csv = [train |-> Source(MkTable(<<<<A_JPG, raw>>>>)), test |-> Source(<<>>)]
    /\ source_images = FilesNamed(csv)
    /\ image_size = AllReadable(source_images)

NextText ==
    \/ LoadAndClean
    \/ AddFeatures
    \/ FixZeroDimensions
    \/ VerifyFilesExist
    \/ FilterData

SpecText == InitText /\ [][NextText]_vars

\* The raw class text of the training record, and the record once filtered.
RawClass == csv.train.rows[1]["class"]
Filtered == pc = "balance_data" /\ Len(df_train) = 1

TomatoLeafBlight == Tomato \o <<"_">> \o LEAF \o <<" ">> \o Blight
TomatoHealthy == Tomato \o <<" ">> \o HEALTHY

\* C12: through load, feature extraction and the binary filter, the record
\* 'Tomato_leaf Blight' gets disease 'Blight' and binary_class 1, and the
\* record 'Tomato healthy' gets disease 'healthy' and binary_class 0.
C12_EndToEndLabels ==
    Filtered =>
        /\ RawClass = TomatoLeafBlight =>
               /\ extract_disease(df_train[1]["class"]) = Blight
               /\ df_train[1].disease = LabelCode(Blight)
               /\ df_train[1].binary_class = 1
        /\ RawClass = TomatoHealthy =>
               /\ extract_disease(df_train[1]["class"]) = HEALTHY
               /\ df_train[1].disease = healthy
               /\ df_train[1].binary_class = 0

\* The first half of C12 alone: 'Tomato_leaf Blight' gets disease 'Blight'
\* and binary_class 1.
C12_BlightHalf ==
    (Filtered /\ RawClass = TomatoLeafBlight) =>
        /\ extract_disease(df_train[1]["class"]) = Blight
        /\ df_train[1].binary_class = 1

Loaded == pc \notin {"run", "aborted"}

HasLeaf(text) == \E i \in DOMAIN text : MatchesAt(LEAF, text, i)

Normalized(text) ==
    /\ ~HasLeaf(text)
    /\ \A i \in DOMAIN text : text[i] # "_"
    /\ \A i \in 1..(Len(text) - 1) : ~(IsSpace(text[i]) /\ IsSpace(text[i + 1]))
    /\ text # <<>> => ~IsSpace(text[1]) /\ ~IsSpace(text[Len(text)])

\* C14: every label produced by clean_class_names is fully normalized: no
\* 'leaf' in any letter case, no underscore, no run of two or more
\* whitespace characters, no leading or trailing whitespace.
C14_FullyNormalized ==
    Loaded => \A i \in DOMAIN df_train : Normalized(df_train[i]["class"])

\* What does hold of every cleaned label: no underscore, no leading or
\* trailing whitespace.
C14_NoUnderscoreNoMargin ==
    Loaded =>
        \A i \in DOMAIN df_train :
            LET text == df_train[i]["class"]
            IN /\ \A k \in DOMAIN text : text[k] # "_"
               /\ text # <<>> => ~IsSpace(text[1]) /\ ~IsSpace(text[Len(text)])


-----------------------------------------------------------------------------
(* A run followed to the end of the validation stage: csv rows with zero   *)
(* or positive dimensions, image files missing, readable or unreadable     *)

ValFilenames == {A_JPG, B_JPG}
Dimensions == {<<0, 0>>, <<0, 2>>, <<2, 0>>, <<2, 2>>}

\* A csv table whose row i is t[i] = (filename, (width, height)).
MkSizedTable(t) ==
    [i \in DOMAIN t |->
        [MkTable(<<<<t[i][1], Scab>>>>)[1]
            EXCEPT !.box = i, !.width = t[i][2][1], !.height = t[i][2][2]]]

ValTrainCsvs == {MkSizedTable(t) : t \in TablesOver(ValFilenames \X Dimensions, MaxValRows)}
ValTestCsvs == {MkSizedTable(t) : t \in TablesOver({C_JPG} \X {<<0, 2>>}, 1)}

\* Image.open(path).size of a file that can be read
ImageContents == {<<3, 1>>, Unreadable}

InitVal ==
    /\ InitRun
    /\ pipeline_type = "binary"
    /\ \E train \in ValTrainCsvs, test \in ValTestCsvs :
           csv = [train |-> Source(train), test |-> Source(test)]
    /\ \E S \in SUBSET ValFilenames, V \in SUBSET {C_JPG} :
           /\ source_images = [train |-> S, val |-> V]
           /\ image_size \in [S \cup V -> ImageContents]

NextVal ==
    \/ LoadAndClean
    \/ AddFeatures
    \/ FixZeroDimensions
    \/ FixZeroDimensionsRaises
    \/ VerifyFilesExist

SpecVal == InitVal /\ [][NextVal]_vars

\* validate_and_fix has returned for the split.
ValidateReturned(s) ==
    \/ pc = "filter_data"
    \/ s = "train" /\ split = "val" /\ pc \in {"fix_zero_dimensions", "verify_files_exist", "aborted"}

\* The table validate_and_fix was given for a split, its image directory,
\* and the table it returned.
ValInput(s) == IF s = "train" THEN csv.train.rows ELSE csv.test.rows
ValOutput(s) == IF s = "train" THEN df_train ELSE df_test
Boxes(df) == [i \in DOMAIN df |-> df[i].box]

\* C11: every record validate_and_fix returns has width > 0 and height > 0,
\* and a record whose zero width or height could not be repaired is not in
\* the table returned.
C11_PositiveDimensions ==
    \A s \in Splits :
        ValidateReturned(s) =>
            /\ \A i \in DOMAIN ValOutput(s) :
                   ValOutput(s)[i].width > 0 /\ ValOutput(s)[i].height > 0
            /\ \A i \in DOMAIN ValInput(s) :
                   (ZeroDimension(ValInput(s)[i])
                        /\ ~Exists(source_images[s], ValInput(s)[i]))
                       => i \notin Range(Boxes(ValOutput(s)))

C11_Witness ==
    /\ pc = "filter_data"
    /\ \E i, j \in DOMAIN csv.train.rows :
           /\ ZeroDimension(csv.train.rows[i])
           /\ ZeroDimension(csv.train.rows[j])
           /\ i \in Range(Boxes(df_train))
           /\ j \notin Range(Boxes(df_train))

\* C19: dimension repair has run when the existence filter starts, and the
\* table validate_and_fix returns holds, in their order, exactly the input
\* rows whose image file exists in the split's directory: every row of a
\* missing file is dropped, no row of a file that exists is dropped.
C19_RepairThenExistenceFilter ==
    /\ pc = "verify_files_exist" =>
           \A i \in DOMAIN Validated :
               Exists(source_images[split], Validated[i]) => ~ZeroDimension(Validated[i])
    /\ \A s \in Splits :
           ValidateReturned(s) =>
               Boxes(ValOutput(s)) =
                   Boxes(SelectSeq(ValInput(s), LAMBDA row : Exists(source_images[s], row)))

C19_Witness ==
    /\ pc = "filter_data"
    /\ Len(csv.train.rows) = 2
    /\ Len(df_train) = 1
    /\ ZeroDimension(csv.train.rows[df_train[1].box])
    /\ Len(csv.test.rows) = 1
    /\ df_test = <<>>

\* The zero-sized records of a split whose image cannot be opened: the file
\* is missing, or it is there and cannot be read.
Unrepairable(s) ==
    {i \in DOMAIN ValInput(s) :
        /\ ZeroDimension(ValInput(s)[i])
        /\ \/ ~Exists(source_images[s], ValInput(s)[i])
           \/ image_size[ValInput(s)[i].filename] = Unreadable}

\* C20: a record with width == 0 or height == 0 whose image cannot be
\* opened (missing, or present but unreadable) never aborts the run.
C20_UnrepairableAbsorbed ==
    (\E s \in Splits : Unrepairable(s) # {}) => pc # "aborted"

\* The half of C20 that holds: a zero-sized record whose file is missing is
\* left as it is by dimension repair, and the run goes on.
C20_MissingFileLeftAsIs ==
    (pc = "verify_files_exist" /\ split = "train") =>
        \A i \in DOMAIN df_train :
            ~Exists(source_images["train"], df_train[i]) =>
                /\ df_train[i].width = csv.train.rows[i].width
                /\ df_train[i].height = csv.train.rows[i].height


-----------------------------------------------------------------------------
(* A run that keeps the natural distribution, on csv sources that may be   *)
(* unreadable or lack one of the required columns                          *)

\* A source with the given rows: unreadable, complete, or without one column.
SourcesOf(rows) ==
    {[Source(rows) EXCEPT !.readable = FALSE]}
        \cup {Source(rows)}
        \cup {[Source(rows) EXCEPT !.columns = RequiredColumns \ {c}] : c \in RequiredColumns}

InitLoad ==
    /\ InitRun
    /\ pipeline_type \in PipelineTypes
    /\ \E train \in SourcesOf(MkTable(<<<<A_JPG, Tomato \o <<"_">> \o Rust>>>>)),
          test \in SourcesOf(MkTable(<<<<C_JPG, Apple \o <<" ">> \o Scab>>>>)) :
           csv = [train |-> train, test |-> test]
    /\ source_images = FilesNamed(csv)
    /\ image_size = AllReadable(source_images)

NextLoad ==
    \/ LoadAndClean
    \/ LoadAndCleanRaises
    \/ AddFeatures
    \/ FixZeroDimensions
    \/ FixZeroDimensionsRaises
    \/ VerifyFilesExist
    \/ FilterData
    \/ BalanceData
    \/ BalanceChooseNatural
    \/ ExportData
    \/ ExportGroupKeyError
    \/ ExportGroupWritten
    \/ ExportReturn
    \/ ExportValidationData
    \/ CreateYamlConfig

SpecLoad == InitLoad /\ [][NextLoad]_vars

Unreadable_csv == \E s \in {"train", "test"} : ~csv[s].readable
MissingColumns == UNION {RequiredColumns \ csv[s].columns : s \in {"train", "test"}}
BoxColumns == {"xmin", "xmax", "ymin", "ymax"}

\* The load stage has failed, or has not run yet.
NotPastLoad == pc \in {"run", "aborted"} /\ stages \in {<<>>, <<"LOAD">>}

\* C13: when a source is unreadable or lacks any required column the load
\* stage fails before any later stage runs; a source missing only a
\* bounding-box column does not reach the export stage.
C13_LoadFailsFatally ==
    /\ (Unreadable_csv \/ MissingColumns # {}) => NotPastLoad
    /\ (MissingColumns # {} /\ MissingColumns \subseteq BoxColumns) =>
           \A i \in DOMAIN stages : stages[i] # "EXPORT"

\* The part of C13 that holds: an unreadable source, or one without the
\* filename or the class column, fails in the load stage.
C13_UnreadableOrKeyColumn ==
    (Unreadable_csv \/ MissingColumns \cap {"filename", "class"} # {}) => NotPastLoad

\* What the code does with a source missing only a bounding-box column: the
\* run reaches the export, every group of that split is skipped, and the
\* manifest is written.
C13_BoxColumnReachesExport ==
    /\ ~Unreadable_csv
    /\ MissingColumns = {"xmin"}
    /\ "xmin" \notin csv.train.columns
    /\ pc = "done"
    /\ returned["train"] = <<0, 1>>
    /\ YamlWritten


-----------------------------------------------------------------------------
(* Claims about the balancing prompt, checked under SpecPipe *)

\* The size of the smallest class of the training table.
SmallestClass == MinCount(df_train, ClassColumn)

\* A number was entered at the target prompt and the prompt was left.
TargetEntered ==
    /\ pc = "balance_target"
    /\ pc' \in {"balance_confirm", "export_data", "aborted"}

\* C15: in every pipeline variant, a target N greater than the size of the
\* smallest training class leads to the warning and the confirmation
\* prompt, and a confirmed N is the target the balancing uses.
C15_AboveSmallestFlagged ==
    [][/\ (TargetEntered /\ df_train # <<>> /\ target_samples' > SmallestClass)
           => pc' = "balance_confirm"
       /\ (pc = "balance_confirm" /\ pc' # "balance_target")
           => target_samples' = target_samples /\ pc' \in {"export_data", "aborted"}
      ]_vars

\* What the code does: the warning is shown for every N above max_possible,
\* which is the smallest class size in the binary pipeline and twice that
\* size in the species and disease pipelines.
C15_AboveMaxPossibleFlagged ==
    [][/\ (TargetEntered /\ df_train # <<>>
              /\ target_samples' > (IF pipeline_type = "binary" THEN 1 ELSE 2) * SmallestClass)
           => pc' = "balance_confirm"
       /\ (pc = "balance_confirm" /\ pc' # "balance_target")
           => target_samples' = target_samples /\ pc' \in {"export_data", "aborted"}
      ]_vars


-----------------------------------------------------------------------------
(* DiseasePipeline.filter_data on a training table large enough for a      *)
(* disease to fall below the rarity threshold: a bulk of about             *)
(* 1 / rare_disease_threshold 'Rust' records, then a few other records     *)

BulkSizes == {(1000 \div rare_disease_threshold) + d : d \in {-1, 0, 1}}

\* The record of a class text, as load and feature extraction leave it.
RowOf(filename, text) ==
    add_features(clean_class_names(MkTable(<<<<filename, text>>>>)))[1]

MinorTexts == {Scab, Tomato \o <<"_">> \o Blight, Tomato \o <<" ">> \o LEAF}

BulkRow == RowOf(A_JPG, Apple \o <<" ">> \o Rust)

\* b 'Apple Rust' records followed by the records of the texts of minor.
BulkTable(b, minor) ==
    [i \in 1..(b + Len(minor)) |->
        [(IF i <= b THEN BulkRow ELSE RowOf(B_JPG, minor[i - b])) EXCEPT !.box = i]]

DiseaseTrainTables ==
    {BulkTable(b, minor) : b \in BulkSizes, minor \in TablesOver(MinorTexts, MaxMinorRows)}

DiseaseTestTables ==
    {BulkTable(0, texts) :
        texts \in TablesOver(MinorTexts \cup {Apple \o <<" ">> \o Rust}, MaxTestRows)}

InitDisease ==
    /\ pc = "filter_data"
    /\ pipeline_type = "disease"
    /\ df_train \in DiseaseTrainTables
    /\ df_test \in DiseaseTestTables
    /\ df_train_processed = None
    /\ df_test_processed = None
    /\ target_samples = 0
    /\ apply_balancing = FALSE
    /\ keep_above_target = TRUE
    /\ ExportIdle

NextDisease == FilterData

SpecDisease == InitDisease /\ [][NextDisease]_vars

\* The non-healthy training records, and the diseases a table names.
NonHealthy(train) == SelectSeq(train, LAMBDA r : r.disease # healthy)
Diseases(df) == Unique(df, "disease")

\* The proportion of disease d among the non-healthy training records is
\* below the rarity threshold.
BelowThreshold(train, d) ==
    CountOf(NonHealthy(train), "disease", d) * 1000
        < rare_disease_threshold * Len(NonHealthy(train))

\* The diseases the claim removes: healthy, excluded, or below the threshold.
ClaimRemoves(train, test) ==
    {d \in Diseases(train) \cup Diseases(test) :
        d = healthy \/ d \in excluded_diseases \/ BelowThreshold(train, d)}

Without(df, removed) == SelectSeq(df, LAMBDA r : r.disease \notin removed)

\* C16: the disease filter leaves in neither split a record whose disease
\* is 'healthy', is on the exclusion list, or has a proportion among the
\* non-healthy training records below the threshold, and keeps every other
\* record of both splits.
C16_DiseaseFilter ==
    [][(pc = "filter_data" /\ pipeline_type = "disease") =>
           LET removed == ClaimRemoves(df_train, df_test)
           IN /\ df_train' = Without(df_train, removed)
              /\ df_test' = Without(df_test, removed)
      ]_vars

\* The same with the rarity test applied only to the diseases that occur
\* among the non-healthy training records, as the code computes it.
C16_DiseaseFilterOfTrainingDiseases ==
    [][(pc = "filter_data" /\ pipeline_type = "disease") =>
           LET removed ==
                   {d \in ClaimRemoves(df_train, df_test) :
                       d = healthy \/ d \in excluded_diseases
                           \/ d \in Diseases(NonHealthy(df_train))}
           IN /\ df_train' = Without(df_train, removed)
              /\ df_test' = Without(df_test, removed)
      ]_vars


-----------------------------------------------------------------------------
(* A bare call of export_to_yolo on the boxes of one image: coordinates    *)
(* inside and outside the image, boxes with xmin > xmax                    *)

Coordinates == {0, 1, 3}

\* (ymin, ymax) of the model's boxes; the images are 2 x 2.
YRanges == {<<0, 1>>, <<1, 3>>}

\* The table whose row i is the box t[i] = (xmin, xmax, (ymin, ymax)) of a.jpg.
MkBoxTable(t) ==
    [i \in DOMAIN t |->
        [MkTable(<<<<A_JPG, 1>>>>)[1]
            EXCEPT !.box = i, !.xmin = t[i][1], !.xmax = t[i][2],
                   !.ymin = t[i][3][1], !.ymax = t[i][3][2]]]

BoxTables ==
    {MkBoxTable(t) : t \in TablesOver(Coordinates \X Coordinates \X YRanges, MaxBoxRows)}

InitBBox ==
    /\ pc = "export_call"
    /\ pipeline_type = "none"
    /\ df_train = None
    /\ df_test = None
    /\ df_train_processed \in BoxTables
    /\ df_test_processed = None
    /\ target_samples = 0
    /\ apply_balancing = FALSE
    /\ keep_above_target = TRUE
    /\ class_mapping \in ExpMappings
    /\ \E S \in SUBSET {A_JPG} : source_images = [NoFiles EXCEPT !["train"] = S]
    /\ output_images = NoFiles
    /\ output_labels = NoLabels
    /\ split = None
    /\ todo = <<>>
    /\ exported = 0
    /\ skipped = 0
    /\ status = <<>>
    /\ returned = <<>>
    /\ mapping_used = <<>>
    /\ dataset_yaml = <<>>
    /\ csv = None
    /\ image_size = <<>>
    /\ stages = <<>>

SpecBBox == InitBBox /\ [][NextExportSound]_vars

\* 0 <= num / den <= 1
InUnitInterval(v) == 0 <= v[1] /\ v[1] <= v[2]

\* The label lines the call has written, in all files.
WrittenLines ==
    UNION {UNION {Range(output_labels[s][f]) : f \in DOMAIN output_labels[s]} :
               s \in Splits}

\* A row whose geometry gives a value outside [0,1].
OutOfRange(row) == \E k \in 1..4 : ~InUnitInterval(convert_bbox_to_yolo(row)[k])

\* C17: the four values of every label line written lie in [0,1], and a
\* group with a record whose geometry gives a value outside [0,1] is not
\* exported as if nothing were wrong.
C17_CoordinatesInRange ==
    /\ \A line \in WrittenLines : \A k \in 2..5 : InUnitInterval(line[k])
    /\ ExpReturned =>
           \A f \in Ended("exported") :
               \A i \in DOMAIN GroupOf(ExportDf, "filename", f) :
                   ~OutOfRange(GroupOf(ExportDf, "filename", f)[i])

\* What holds: a box that lies inside its image, with xmin <= xmax and
\* ymin <= ymax, is written with four values in [0,1].
C17_InsideBoxesInRange ==
    ExpReturned =>
        \A f \in Ended("exported") :
            LET group == GroupOf(ExportDf, "filename", f)
            IN \A i \in DOMAIN group :
                   (/\ 0 <= group[i].xmin /\ group[i].xmin <= group[i].xmax
                    /\ group[i].xmax <= group[i].width
                    /\ 0 <= group[i].ymin /\ group[i].ymin <= group[i].ymax
                    /\ group[i].ymax <= group[i].height)
                   => \A k \in 2..5 :
                          InUnitInterval(output_labels[split][LabelFile(f)][i][k])


-----------------------------------------------------------------------------
(* Claims about the order of the stages, checked under SpecPipe *)

StageOrder == <<"LOAD", "EXTRACT_FEATURES", "VALIDATE", "FILTER", "BALANCE", "EXPORT">>

\* The number of stages run() has entered when it is at pc.
StagesEntered ==
    CASE pc = "run" -> 0
      [] pc = "add_features" -> 1
      [] pc = "fix_zero_dimensions" -> IF split = "train" THEN 2 ELSE 3
      [] pc \in {"verify_files_exist", "filter_data"} -> 3
      [] pc = "balance_data" -> 4
      [] pc \in {"balance_choice", "balance_target", "balance_confirm", "export_data"} -> 5
      [] pc \in {"export_loop", "export_returned", "done"} -> 6

\* C18: a run enters its stages once each, in the order LOAD,
\* EXTRACT_FEATURES, VALIDATE, FILTER, BALANCE, EXPORT, each after the one
\* before it has finished, and once a stage has raised no stage is entered.
C18_StagesInOrder ==
    /\ [](IF pc = "aborted"
          THEN \E n \in 1..Len(StageOrder) : stages = SubSeq(StageOrder, 1, n)
          ELSE stages = SubSeq(StageOrder, 1, StagesEntered))
    /\ [][pc = "aborted" => (pc' = "aborted" /\ stages' = stages)]_vars

C18_Witness ==
    /\ pc = "done"
    /\ stages = StageOrder
    /\ YamlWritten

-----------------------------------------------------------------------------
(* Claims about the export of balanced names, checked under SpecPipe *)

Exporting == pc \in {"export_loop", "export_returned", "done"}

\* The records of one class before and after balance_data.
TrainIn(c) == GroupOf(df_train, ClassColumn, c)
TrainOut(c) == GroupOf(df_train_processed, ClassColumn, c)

\* The position, among the n records of its class, of the record that the
\* i-th processed record of the class is or duplicates.
OriginOf(i, n) == IF i <= n THEN i ELSE ((i - n - 1) % n) + 1

\* The training group of filename f was exported by the training export.
TrainExported(f) ==
    /\ <<"train", f>> \in DOMAIN status
    /\ status[<<"train", f>>] = "exported"
    /\ f \in output_images["train"]

\* C21: the file export_to_yolo looks up for a processed training record is
\* the file of the record it is or duplicates (the synthetic name
\* <stem>_dup<k><suffix> resolves to the original, any other name to itself),
\* and once the training export has returned every processed training record,
\* whose original passed the existence filter, was exported under its own
\* name and not skipped.
C21_SourceResolved ==
    /\ Exporting =>
           \A c \in Unique(df_train, ClassColumn) :
               \A i \in DOMAIN TrainOut(c) :
                   ExportSrc(TrainOut(c)[i].filename)
                       = TrainIn(c)[OriginOf(i, Len(TrainIn(c)))].filename
    /\ (Exporting /\ "train" \in DOMAIN returned) =>
           \A f \in Unique(df_train_processed, "filename") : TrainExported(f)

\* What holds: the same, of the records whose original filename does not
\* contain the text '_dup'.
C21_SourceResolvedWithoutMarker ==
    /\ Exporting =>
           \A c \in Unique(df_train, ClassColumn) :
               \A i \in DOMAIN TrainOut(c) :
                   LET origin == TrainIn(c)[OriginOf(i, Len(TrainIn(c)))].filename
                   IN ~HasDup(origin) => ExportSrc(TrainOut(c)[i].filename) = origin
    /\ (Exporting /\ "train" \in DOMAIN returned) =>
           \A c \in Unique(df_train, ClassColumn) :
               \A i \in DOMAIN TrainOut(c) :
                   ~HasDup(TrainIn(c)[OriginOf(i, Len(TrainIn(c)))].filename)
                       => TrainExported(TrainOut(c)[i].filename)

-----------------------------------------------------------------------------
(* Claims about the output paths of one export_to_yolo call, checked under *)
(* SpecExportSound                                                         *)

\* The groups that wrote files: their image was copied.
Wrote == EndedIn({"exported", "key_error"})

\* The lines the call writes for the group of f.
OwnLines(f) == LabelLines(GroupOf(ExportDf, "filename", f), class_mapping, ClassColumn)

\* C22: two distinct filename groups of one call never write the same
\* output path, neither the image path nor the label path <stem>.txt, and
\* when the call returns the label file of every group holds the lines of
\* that group: no group's label file was overwritten by another group.
C22_GroupsShareNoPath ==
    /\ pc = "export_loop" =>
           \A f, g \in Wrote : f # g => LabelFile(f) # LabelFile(g)
    /\ ExpReturned =>
           \A f \in Wrote : output_labels[split][LabelFile(f)] = OwnLines(f)

\* What holds: the label file of a group whose stem no other group of the
\* table has holds the lines of that group.
C22_OwnStemKeepsLines ==
    ExpReturned =>
        \A f \in Wrote : OwnLabelFile(f) => output_labels[split][LabelFile(f)] = OwnLines(f)

-----------------------------------------------------------------------------
(* Claims about the end of balance_data, checked under SpecPipe *)

Prompts == {"balance_choice", "balance_target", "balance_confirm"}

\* balance_data returns with the training set balanced to a positive target.
FinishedBalanced ==
    /\ pc' = "export_data"
    /\ apply_balancing'
    /\ target_samples' > 0
    /\ df_train_processed' =
           balance_by_column(df_train, ClassColumn, target_samples', keep_above_target)
    /\ df_test_processed' = df_test

\* balance_data returns with the natural distribution.
FinishedNatural ==
    /\ pc' = "export_data"
    /\ ~apply_balancing'
    /\ df_train_processed' = df_train
    /\ df_test_processed' = df_test

\* balance_by_column raised on a training set without rows, for a positive
\* target that was accepted.
RaisedOnNoRows ==
    /\ pc' = "aborted"
    /\ df_train = <<>>
    /\ target_samples' > 0

\* C23: every answer at a prompt of balance_data leads to a prompt again
\* (an invalid choice, a text that is no integer, a number that is not
\* positive, a declined confirmation), the processed sets untouched, or ends
\* balance_data with both processed sets set: the training set balanced to
\* the positive target accepted, or copied unchanged when the natural
\* distribution was chosen.  No answer aborts the run; the only exception is
\* that of balancing a training set without rows.
C23_PromptNeverAborts ==
    [][(pc \in Prompts) =>
           \/ /\ pc' \in Prompts
              /\ UNCHANGED <<df_train_processed, df_test_processed, df_train, df_test>>
              /\ pc \in {"balance_target", "balance_confirm"} => pc' # "balance_choice"
           \/ FinishedBalanced
           \/ FinishedNatural
           \/ RaisedOnNoRows
      ]_vars

\* The target prompt is shown again after a confirmation was declined.
C23_Witness ==
    /\ pc = "balance_target"
    /\ apply_balancing
    /\ ExceedsMaxPossible(target_samples)
    /\ df_train_processed = None

-----------------------------------------------------------------------------
(* Claims about the names of the duplicates of a run, checked under        *)
(* SpecPipe                                                                *)

\* The synthetic records of class c: those balance_by_column appended to
\* the records the class had.
TrainAdded(c) == SubSeq(TrainOut(c), Len(TrainIn(c)) + 1, Len(TrainOut(c)))

TrainClasses == Unique(df_train, ClassColumn)

\* C24: a synthetic filename created for one class is not the filename of
\* any processed record of another class, original or synthetic, and
\* once the training export has returned the label file of every synthetic
\* image that was exported holds one line, the box of the record it
\* duplicates.
C24_DuplicateNamesApart ==
    Exporting =>
        \A c \in TrainClasses :
            \A k \in DOMAIN TrainAdded(c) :
                LET name == TrainAdded(c)[k].filename
                IN /\ \A d \in TrainClasses \ {c} :
                          \A j \in DOMAIN TrainOut(d) : TrainOut(d)[j].filename # name
                   /\ ("train" \in DOMAIN returned /\ TrainExported(name)) =>
                          output_labels["train"][LabelFile(name)]
                              = LabelLines(<<TrainAdded(c)[k]>>, class_mapping, ClassColumn)

\* What holds: the same, of the classes whose original records share no
\* image with another class and name no file with '_dup' in its name.
C24_ApartWhenImagesApart ==
    Exporting =>
        \A c \in TrainClasses :
            \A k \in DOMAIN TrainAdded(c) :
                LET name == TrainAdded(c)[k].filename
                IN (\A d \in TrainClasses \ {c} :
                        \A j \in DOMAIN TrainIn(d) :
                            /\ ~HasDup(TrainIn(d)[j].filename)
                            /\ TrainIn(d)[j].filename \notin Unique(TrainIn(c), "filename"))
                   => \A d \in TrainClasses \ {c} :
                          \A j \in DOMAIN TrainOut(d) : TrainOut(d)[j].filename # name

-----------------------------------------------------------------------------
(* Claims about the class indices of a binary run, checked under SpecPipe  *)

\* The processed table of a split.
Processed(s) == IF s = "train" THEN df_train_processed ELSE df_test_processed

\* The groups of either split whose label file was written.
GroupsWritten == {k \in DOMAIN status : status[k] \in {"exported", "key_error"}}

\* The class index of every line of the label file of group k is the
\* binary_class of the record the line was written for.
IndexIsBinaryClass(k) ==
    LET group == GroupOf(Processed(k[1]), "filename", k[2])
        lines == output_labels[k[1]][LabelFile(k[2])]
    IN \A i \in DOMAIN lines : lines[i][1] = group[i].binary_class

\* C25: in the binary pipeline the class index of every label line written
\* is the binary_class of its record, 0 for healthy and 1 for diseased,
\* whatever the training set, one with records of a single class included.
C25_IndexIsBinaryClass ==
    (pipeline_type = "binary" /\ Exporting) =>
        \A k \in GroupsWritten : IndexIsBinaryClass(k)

\* What holds: the same, when the processed training set has records of
\* both classes.
C25_IndexIsBinaryClassOfTwo ==
    (pipeline_type = "binary" /\ Exporting
        /\ Unique(df_train_processed, "binary_class") = {0, 1}) =>
        \A k \in GroupsWritten : IndexIsBinaryClass(k)

-----------------------------------------------------------------------------
(* Claims about the classes of the evaluation set, checked under SpecPipe  *)

\* A group of the evaluation export ended in the KeyError of a class that
\* is no key of the mapping.
ValKeyError == \E k \in DOMAIN status : k[1] = "val" /\ status[k] = "key_error"

\* C26: in every pipeline variant the label value of every record of the
\* processed evaluation set is a key of the class mapping built from the
\* processed training set, and no evaluation group is skipped or cut
\* short for a missing key.
C26_EvalClassesMapped ==
    Exporting =>
        /\ \A i \in DOMAIN df_test_processed :
               df_test_processed[i][ClassColumn] \in DOMAIN class_mapping
        /\ ~ValKeyError

\* What holds: the same, of the runs whose filtered evaluation set has no
\* label value that the filtered training set lacks.
C26_EvalClassesMappedWhenInTraining ==
    (Exporting /\ Unique(df_test, ClassColumn) \subseteq Unique(df_train, ClassColumn)) =>
        /\ \A i \in DOMAIN df_test_processed :
               df_test_processed[i][ClassColumn] \in DOMAIN class_mapping
        /\ ~ValKeyError

-----------------------------------------------------------------------------
(* Runs of the same pipeline one after the other, on the same csv files    *)
(* and into the same output directory                                      *)

\* run_single_pipeline is called again once a run is complete: a new
\* pipeline object is constructed; what is on disk stays as it is.
RunAgain ==
    /\ pc = "done"
    /\ pc' = "run"
    /\ df_train' = None
    /\ df_test' = None
    /\ df_train_processed' = None
    /\ df_test_processed' = None
    /\ target_samples' = 0
    /\ apply_balancing' = FALSE
    /\ class_mapping' = None
    /\ split' = None
    /\ todo' = <<>>
    /\ exported' = 0
    /\ skipped' = 0
    /\ status' = <<>>
    /\ returned' = <<>>
    /\ mapping_used' = <<>>
    /\ stages' = <<>>
    /\ UNCHANGED <<pipeline_type, keep_above_target, source_images, output_images,
                   output_labels, dataset_yaml, csv, image_size>>

NextRuns == NextPipe \/ RunAgain

SpecRuns == InitPipe /\ [][NextRuns]_vars

\* The images and the label files the run that has just ended wrote for a
\* split.
ImagesOfRun(s) == {k[2] : k \in {g \in GroupsWritten : g[1] = s}}
LabelsOfRun(s) == {LabelFile(f) : f \in ImagesOfRun(s)}

\* C27: when a run ends, the output image and label directories hold the
\* files that run exported and no others, whatever runs of the same
\* pipeline went before it into the same output directory.
C27_OnlyLatestRunFiles ==
    pc = "done" =>
        \A s \in Splits :
            /\ output_images[s] = ImagesOfRun(s)
            /\ DOMAIN output_labels[s] = LabelsOfRun(s)

\* What holds: the files the latest run exported are there, and the
\* manifest is that of the latest run.
C27_LatestRunFilesPresent ==
    pc = "done" =>
        /\ \A s \in Splits :
               /\ ImagesOfRun(s) \subseteq output_images[s]
               /\ LabelsOfRun(s) \subseteq DOMAIN output_labels[s]
        /\ Yaml = create_yaml_config(class_mapping)

=============================================================================
